---- MODULE Spec2Model ----
(***************************************************************************)
(* Payment-claim bot of src/main.py: free-text payment submissions, the    *)
(* MongoDB "payments" collection, the log-channel notifications with their *)
(* inline keyboards, the per-user context.user_data of the moderators, and *)
(* the three update handlers registered in main().                         *)
(*                                                                         *)
(* Application.builder().token(..).build() (main.py:520) leaves            *)
(* concurrent_updates off and every handler blocking, so the dispatcher    *)
(* awaits one handler to its end before it takes the next update: each     *)
(* handler is one atomic action.  An awaited Telegram call may raise; the  *)
(* outcome of each send is an input of the action.                         *)
(***************************************************************************)
EXTENDS Integers, Sequences, FiniteSets, TLC

\* ------------------------------------------------------------------ bounds
\* Telegram users 1..NumUsers; the first two are the configured admins.
NumUsers == 3
\* Distinct 12-digit transaction ids the submitters may quote.
NumRefs == 2
\* Kinds of Telegram call that fail during one handler run.
MaxFailures == 1
\* Updates the dispatcher handles in one run of the bot.
MaxUpdates == 4
\* parse_time_period on its own is called with whole amounts up to this many rupees.
MaxAmount == 200
\* Day counts up to this are read back from a label.
MaxDays == 400

\* --------------------------------------------------------- configuration
YOUR_TELEGRAM_USER_ID == 1

ADMIN_IDS == {2} \cup {YOUR_TELEGRAM_USER_ID}

Users == 1..NumUsers

\* ----------------------------------------------------------------- texts
\* A message text is the sequence of its whitespace-separated tokens; a
\* token is a sequence of one-character strings.
Digits == {"0", "1", "2", "3", "4", "5", "6", "7", "8", "9"}

DigitVal(c) ==
    CASE c = "0" -> 0 [] c = "1" -> 1 [] c = "2" -> 2 [] c = "3" -> 3
      [] c = "4" -> 4 [] c = "5" -> 5 [] c = "6" -> 6 [] c = "7" -> 7
      [] c = "8" -> 8 [] c = "9" -> 9

DigitChar(d) ==
    CASE d = 0 -> "0" [] d = 1 -> "1" [] d = 2 -> "2" [] d = 3 -> "3"
      [] d = 4 -> "4" [] d = 5 -> "5" [] d = 6 -> "6" [] d = 7 -> "7"
      [] d = 8 -> "8" [] d = 9 -> "9"

\* The 12-digit transaction id whose digits are all d.
RefDigits(d) == [i \in 1..12 |-> DigitChar(d)]

TokAlice == <<"a", "l", "i", "c", "e">>
TokAtBob == <<"@", "B", "o", "b">>

\* The valid submission quoting reference d: "alice <d x 12> 25" for an odd d,
\* "@Bob <d x 12> 17.5" for an even one.
TextOk(d) ==
    IF d % 2 = 1 THEN <<TokAlice, RefDigits(d), <<"2", "5">>>>
    ELSE <<TokAtBob, RefDigits(d), <<"1", "7", ".", "5">>>>
\* A second submission quoting reference 1, with another handle and amount.
TextBob == <<TokAtBob, RefDigits(1), <<"1", "5", "0">>>>
TextShortRef == <<TokAlice, <<"1", "2", "3">>, <<"2", "5">>>>
TextLow == <<TokAlice, RefDigits(1), <<"4">>>>
TextHigh == <<TokAlice, RefDigits(1), <<"2", "0", "0">>>>
TextPlain == <<<<"f", "a", "k", "e">>>>
TextStart == <<<<"/", "s", "t", "a", "r", "t">>>>
TextCheck == <<<<"/", "c", "h", "e", "c", "k", "_", "p", "a", "y", "m", "e", "n", "t", "s">>>>
TextSlash == <<<<"/", "r">>, <<"f", "a", "k", "e">>>>
TextSlash2 == <<<<"/", "n">>, <<"l", "a", "t", "e">>>>

Texts ==
    {TextOk(d) : d \in 1..NumRefs}
        \cup {TextBob, TextShortRef, TextLow, TextHigh, TextPlain,
              TextStart, TextCheck, TextSlash, TextSlash2}

\* str.lower() on the letters the texts use.
Lower(c) == IF c = "B" THEN "b" ELSE c

\* match.group(1).lower().replace("@", "")
NormalizeUsername(tok) ==
    LET low == [i \in 1..Len(tok) |-> Lower(tok[i])]
    IN  SelectSeq(low, LAMBDA c : c # "@")

\* Length of the longest prefix of tok made of digits, starting at index i.
RECURSIVE DigitRun(_, _)
DigitRun(tok, i) ==
    IF i <= Len(tok) /\ tok[i] \in Digits THEN 1 + DigitRun(tok, i + 1) ELSE 0

\* What (\d+(\.\d+)?) matches at the start of tok: the integer digits and,
\* when a dot and at least one digit follow, the fraction digits.  Anything
\* after that is left unmatched (re.match anchors the start only).
AmountStr(tok) ==
    LET n == DigitRun(tok, 1)
        f == IF n + 1 <= Len(tok) /\ tok[n + 1] = "." THEN DigitRun(tok, n + 2) ELSE 0
    IN  IF f > 0 THEN SubSeq(tok, 1, n + 1 + f) ELSE SubSeq(tok, 1, n)

\* re.match(r"(\S+)\s+(\d{12})\s+(\d+(\.\d+)?)", text): a first token, a
\* second token of exactly 12 digits, a third token that starts with a digit.
RegexMatch(text) ==
    /\ Len(text) >= 3
    /\ Len(text[1]) >= 1
    /\ Len(text[2]) = 12
    /\ DigitRun(text[2], 1) = 12
    /\ DigitRun(text[3], 1) >= 1

\* Value of a digit string.
RECURSIVE DecVal(_)
DecVal(ds) ==
    IF Len(ds) = 0 THEN 0
    ELSE 10 * DecVal(SubSeq(ds, 1, Len(ds) - 1)) + DigitVal(ds[Len(ds)])

\* float(amount_str), held in tenths of a rupee (the texts carry at most one
\* fraction digit, which a float represents closely enough for every
\* comparison and rounding below to come out as in exact arithmetic).
ToFloat(s) ==
    LET n == DigitRun(s, 1)
        whole == DecVal(SubSeq(s, 1, n))
        frac == IF n < Len(s) THEN DecVal(SubSeq(s, n + 2, n + 2)) ELSE 0
    IN  10 * whole + frac

\* A whole number of rupees as a float of the model.
Rupees(n) == 10 * n

\* ------------------------------------------------------- duration policy
\* Mutant of Max: the lower clamp is dropped.
Max_unclamped(a, b) == b

Max(a, b) == IF a >= b THEN a ELSE b
Min(a, b) == IF a <= b THEN a ELSE b

\* Python's round() of the rational p/q (q > 0): half to even.
Round(p, q) ==
    LET f == p \div q
        r == p % q
    IN  IF 2 * r < q THEN f
        ELSE IF 2 * r > q THEN f + 1
        ELSE IF f % 2 = 0 THEN f ELSE f + 1

tiers ==
    << [amount |-> 5, days |-> 3],
       [amount |-> 10, days |-> 7],
       [amount |-> 25, days |-> 30],
       [amount |-> 60, days |-> 90],
       [amount |-> 100, days |-> 180],
       [amount |-> 150, days |-> 365] >>

\* Mutant of TotalDays: the day count of the tier at or below the amount, with
\* no interpolation.
TotalDays_steps(amount) ==
    LET a == Max(Rupees(5), Min(Rupees(150), amount))
        below == {i \in 1..Len(tiers) : Rupees(tiers[i].amount) <= a}
    IN  tiers[CHOOSE i \in below : \A j \in below : j <= i].days

\* total_days of parse_time_period for an amount in tenths.
TotalDays(amount) ==
    LET a == Max(Rupees(5), Min(Rupees(150), amount))
        exact == {i \in 1..Len(tiers) : Rupees(tiers[i].amount) = a}
        first == tiers[1]
        top == tiers[Len(tiers)]
        bracket == {i \in 1..(Len(tiers) - 1) :
                       a >= Rupees(tiers[i].amount) /\ a <= Rupees(tiers[i + 1].amount)}
    IN  IF exact # {} THEN tiers[CHOOSE i \in exact : TRUE].days
        ELSE IF a < Rupees(first.amount)
            THEN Max(1, Round(a * first.days, Rupees(first.amount)))
        ELSE IF a > Rupees(top.amount)
            THEN Round(a * top.days, Rupees(top.amount))
        ELSE IF bracket # {}
            THEN LET i == CHOOSE k \in bracket : \A j \in bracket : k <= j
                     lo == tiers[i]
                     up == tiers[i + 1]
                     den == Rupees(up.amount - lo.amount)
                 IN  Round(lo.days * den + (a - Rupees(lo.amount)) * (up.days - lo.days), den)
        ELSE 0

\* Mutant of DurationLabel: whole months are used from 30 days on, whatever
\* the remainder.
DurationLabel_rounds(total_days) ==
    IF total_days >= 365 /\ total_days % 365 = 0 THEN ToString(total_days \div 365) \o "year"
    ELSE IF total_days >= 30 THEN ToString(total_days \div 30) \o "month"
    ELSE ToString(total_days) \o "days"

\* The label parse_time_period returns for total_days.
DurationLabel(total_days) ==
    IF total_days >= 365 /\ total_days % 365 = 0 THEN ToString(total_days \div 365) \o "year"
    ELSE IF total_days >= 30 /\ total_days % 30 = 0 THEN ToString(total_days \div 30) \o "month"
    ELSE IF total_days > 0 THEN ToString(total_days) \o "days"
    ELSE "1day"

parse_time_period(amount) == DurationLabel(TotalDays(amount))


\* ----------------------------------------------------------------- values
\* insert_one gives a document without "_id" a fresh ObjectId; f"approve_{payment_id}"
\* formats it and data.split("_")[1] returns that text, a str.  Both are kept
\* as typed values: a BSON query {"_id": x} matches on type and value.
ObjectId(n) == [type |-> "ObjectId", hex |-> n]

Str(oid) == [type |-> "str", hex |-> oid.hex]

None == [type |-> "NoneType", hex |-> 0]

\* An absent text (a missing "admin_note" key, note=None).
NoText == <<>>

\* An absent user id or date.
Absent == 0

PENDING == "pending_admin_verification"

VARIABLES
    payments,   \* payments_collection: the documents, in insertion order
    channel,    \* the inline keyboards of the log-channel messages sent with one
    user_data,  \* context.user_data of each user
    clock,      \* datetime.now(), as the number of timestamps stored so far
    handled,    \* the number of updates the dispatcher has handled
    begun,      \* history: per user, the button ("reject" or "note") whose press
                \* last set the user's keys, "" while the user has none
    tried,      \* the amount parse_time_period is called with on its own (in tenths)
    period      \* what that call computed: total_days and the label returned

vars == <<payments, channel, user_data, clock, handled, begun, tried, period>>

\* One outbound call of a handler: via "reply" (update.message.reply_*),
\* "notify" (notify_user), "channel" (log_to_channel), "edit"
\* (query.edit_message_text), "answer" (query.answer) or "logger"; ok tells
\* whether Telegram accepted it.
Sent(via, to, msg, about, ok) ==
    [via |-> via, to |-> to, msg |-> msg, about |-> about, ok |-> ok]

\* The outcome of the Telegram calls of one handler run, per kind of call; at
\* most MaxFailures kinds fail in one run.
CallKinds == {"answer", "reply", "edit", "notify", "log"}

NetOf(failed) ==
    [answer |-> "answer" \notin failed, reply |-> "reply" \notin failed,
     edit |-> "edit" \notin failed, notify |-> "notify" \notin failed,
     log |-> "log" \notin failed]

Nets == {NetOf(failed) : failed \in {f \in SUBSET CallKinds : Cardinality(f) <= MaxFailures}}

\* ------------------------------------------------------------ collection
\* Mutant of find_one_txn: the duplicate look-up finds nothing.
find_one_txn_misses(coll, txn_id) == 0

\* payments_collection.find_one({"txn_id": txn_id}): index of the first match, 0 if none.
find_one_txn(coll, txn_id) ==
    LET hits == {i \in 1..Len(coll) : coll[i].txn_id = txn_id}
    IN  IF hits = {} THEN 0 ELSE CHOOSE i \in hits : \A j \in hits : i <= j

\* payments_collection.find_one({"_id": payment_id}): index of the match, 0 if none.
find_one_id(coll, payment_id) ==
    LET hits == {i \in 1..Len(coll) : coll[i]._id = payment_id}
    IN  IF hits = {} THEN 0 ELSE CHOOSE i \in hits : \A j \in hits : i <= j

\* update_one({"_id": payment_id}, {"$set": fields}): the collection after it
\* and result.modified_count.
update_one(coll, payment_id, fields) ==
    LET i == find_one_id(coll, payment_id)
        doc == IF i = 0 THEN None
               ELSE [k \in DOMAIN coll[i] |-> IF k \in DOMAIN fields THEN fields[k] ELSE coll[i][k]]
    IN  IF i = 0 THEN [coll |-> coll, modified_count |-> 0]
        ELSE [coll |-> [coll EXCEPT ![i] = doc],
              modified_count |-> IF doc = coll[i] THEN 0 ELSE 1]

\* Mutant of update_payment_status: the update also rewrites premium_duration.
update_payment_status_relabels(coll, payment_id, status, admin_id, note, now) ==
    LET result == update_one(coll, payment_id,
                             [status |-> status, admin_processed_date |-> now,
                              processed_by |-> admin_id, premium_duration |-> "3days"])
    IN  [coll |-> result.coll, success |-> result.modified_count > 0]

\* update_payment_status: sets status, admin_processed_date and processed_by,
\* and admin_note when a note is given; success is modified_count > 0.
update_payment_status(coll, payment_id, status, admin_id, note, now) ==
    LET update_data == [status |-> status, admin_processed_date |-> now, processed_by |-> admin_id]
        with_note == [status |-> status, admin_processed_date |-> now, processed_by |-> admin_id,
                      admin_note |-> note]
        result == update_one(coll, payment_id, IF note # NoText THEN with_note ELSE update_data)
    IN  [coll |-> result.coll, success |-> result.modified_count > 0]

\* The document handle_payment_details stores (user_full_name and
\* processed_by_bot, which nothing reads back, are left out).  Keys that
\* later updates add are present from the start, holding Absent / NoText.
payment_record(oid, user_telegram_id, telegram_username, txn_id, amount_paid, premium_duration_string, now) ==
    [_id |-> oid,
     user_telegram_id |-> user_telegram_id,
     telegram_username |-> telegram_username,
     txn_id |-> txn_id,
     amount_paid |-> amount_paid,
     premium_duration |-> premium_duration_string,
     submission_date |-> now,
     status |-> PENDING,
     admin_processed_date |-> Absent,
     processed_by |-> Absent,
     admin_note |-> NoText,
     note_added_by |-> Absent,
     note_added_at |-> Absent]

\* ------------------------------------------------------------- keyboards
\* callback_data f"{action}_{payment_id}": the action and the id's text.
callback_data(action, payment_id) == <<action, Str(payment_id)>>

\* create_payment_buttons(payment_id)
create_payment_buttons(payment_id) ==
    {callback_data("approve", payment_id),
     callback_data("reject", payment_id),
     callback_data("note", payment_id)}

\* The one-button keyboard of the reject and note prompts; payment_id is
\* already the text taken from the pressed button.
cancel_keyboard(payment_id) == {<<"cancel", payment_id>>}

\* f"/add_premium {user_telegram_id} {premium_duration_string}"
add_premium_command(user_telegram_id, premium_duration_string) ==
    "/add_premium " \o ToString(user_telegram_id) \o " " \o premium_duration_string


\* ---------------------------------------------------------- error paths
\* error_handler: runs when a handler let an exception out.  It logs, replies
\* to the update's message (a reply that raises ends it there) and then posts
\* the error to the log channel.
error_handler(sent, u, net) ==
    sent \o <<Sent("logger", Absent, "update_caused_error", <<>>, TRUE),
              Sent("reply", u, "oops", <<>>, net.reply)>>
         \o (IF net.reply THEN <<Sent("channel", Absent, "bot_error", <<>>, net.log)>> ELSE <<>>)

\* notify_user: the send, and on failure the note of it in the log channel;
\* it never raises.
notify_user(user_id, msg, about, net) ==
    <<Sent("notify", user_id, msg, about, net.notify)>>
        \o (IF net.notify THEN <<>>
            ELSE <<Sent("logger", Absent, "failed_to_notify", about, TRUE),
                   Sent("channel", Absent, "failed_to_notify", about, net.log)>>)

\* ------------------------------------------------- handle_payment_details
\* The amount limits of the submission handler.
amount_too_low(amount_paid) == amount_paid < Rupees(5)

\* Mutant of amount_too_high: no upper limit, the amount is left to be clamped.
amount_too_high_clamps(amount_paid) == FALSE

amount_too_high(amount_paid) == amount_paid > Rupees(150)

\* The except-branch of handle_payment_details for a Telegram error: it logs
\* and replies again, and that reply failing leaves the handler.
except_exception(sent, u, net) ==
    LET more == sent \o <<Sent("logger", Absent, "unexpected_error", <<>>, TRUE),
                          Sent("reply", u, "unexpected_error", <<>>, net.reply)>>
    IN  IF net.reply
        THEN more \o <<Sent("channel", Absent, "unexpected_error", <<>>, net.log)>>
        ELSE error_handler(more, u, net)

\* What lines 186-200 and 223 compute from a text, for each text of the model.
Parsed ==
    [text \in Texts |->
        IF ~RegexMatch(text) THEN [match |-> FALSE]
        ELSE [match |-> TRUE,
              telegram_username |-> NormalizeUsername(text[1]),
              txn_id |-> text[2],
              amount_paid |-> ToFloat(AmountStr(text[3])),
              premium_duration_string |-> parse_time_period(ToFloat(AmountStr(text[3])))]]

\* handle_payment_details for the text `text` of user u: the collection, the
\* channel, the clock and the calls made.
handle_payment_details(u, text, net) ==
    LET same == [payments |-> payments, channel |-> channel, clock |-> clock]
        answer(msg) ==
            LET r == <<Sent("reply", u, msg, <<>>, net.reply)>>
            IN  same @@
                [out |-> IF net.reply THEN r ELSE error_handler(r, u, net)]
        telegram_username == Parsed[text].telegram_username
        txn_id == Parsed[text].txn_id
        amount_paid == Parsed[text].amount_paid
        premium_duration_string == Parsed[text].premium_duration_string
        dup == find_one_txn(payments, txn_id)
        now == clock + 1
        payment_id == ObjectId(Len(payments) + 1)
        record == payment_record(payment_id, u, telegram_username, txn_id, amount_paid,
                                 premium_duration_string, now)
        stored == Append(payments, record)
        keyboard == create_payment_buttons(payment_id)
        post == [about |-> payment_id,
                 command |-> add_premium_command(u, record.premium_duration),
                 keyboard |-> keyboard]
        saved == <<Sent("logger", Absent, "payment_record_saved", <<payment_id>>, TRUE)>>
        receipt == Sent("reply", u, "received", <<payment_id>>, net.reply)
    IN  IF ~Parsed[text].match THEN answer("invalid_format")
        ELSE IF amount_too_low(amount_paid) THEN answer("minimum_amount")
        ELSE IF amount_too_high(amount_paid) THEN answer("maximum_amount")
        ELSE IF dup # 0
            THEN LET told == <<Sent("reply", u, "already_submitted", <<payments[dup]._id>>, net.reply)>>
                 IN  same @@
                     [out |-> IF ~net.reply THEN except_exception(told, u, net)
                              ELSE told \o <<Sent("logger", Absent, "duplicate_txn", <<payments[dup]._id>>, TRUE),
                                             Sent("channel", Absent, "duplicate_txn", <<payments[dup]._id>>, net.log)>>]
        ELSE IF ~net.reply
            THEN [payments |-> stored, channel |-> channel, clock |-> now,
                  out |-> except_exception(saved \o <<receipt>>, u, net)]
        ELSE [payments |-> stored,
              channel |-> IF net.log THEN Append(channel, post) ELSE channel,
              clock |-> now,
              out |-> saved \o <<receipt, Sent("channel", Absent, "new_payment", <<payment_id>>, net.log)>>]


\* -------------------------------------------------------- button_callback
\* data.split("_")[1]
callback_payment_id(data) == data[2]

\* Mutant of is_admin: the allow-list is not consulted.
is_admin_unchecked(user_id) == TRUE

\* user_id in ADMIN_IDS
is_admin(user_id) == user_id \in ADMIN_IDS

\* query.edit_message_text(text, reply_markup=keyboard) on channel message i:
\* the keyboard it leaves on the message (the new text is among the calls).
edit_message(chan, i, keyboard) == [chan EXCEPT ![i].keyboard = keyboard]

\* The user_data of a user with no keys.
no_user_data ==
    [current_payment_id |-> None, rejecting_admin_id |-> Absent, noting_admin_id |-> Absent]

\* The keys the reject button sets.
begin_reject(ud, payment_id, user_id) ==
    [ud EXCEPT !.current_payment_id = payment_id, !.rejecting_admin_id = user_id]

\* The keys the note button sets.
begin_note(ud, payment_id, user_id) ==
    [ud EXCEPT !.current_payment_id = payment_id, !.noting_admin_id = user_id]

\* button_callback for user u pressing the button `data` of channel message i.
button_callback(u, i, data, net) ==
    LET same == [payments |-> payments, channel |-> channel, user_data |-> user_data,
                 clock |-> clock]
        answered == <<Sent("answer", u, "", <<>>, net.answer)>>
        payment_id == callback_payment_id(data)
        \* one edit of the pressed message as the handler's last call
        edit(base, sent, text, keyboard) ==
            LET calls == sent \o <<Sent("edit", u, text, <<payment_id>>, net.edit)>>
            IN  [base EXCEPT !.channel = IF net.edit THEN edit_message(channel, i, keyboard)
                                          ELSE channel] @@
                [out |-> IF net.edit THEN calls ELSE error_handler(calls, u, net)]
        found == find_one_id(payments, payment_id)
        payment == payments[found]
        now == clock + 1
        upd == update_payment_status(payments, payment_id, "approved", u, NoText, now)
        approved == [same EXCEPT !.payments = upd.coll, !.clock = now]
        notified == answered \o notify_user(payment.user_telegram_id, "approved", <<payment_id>>, net)
        edited == edit(approved, notified, "approved_by", {})
    IN  IF ~net.answer THEN same @@ [out |-> error_handler(answered, u, net)]
        ELSE IF ~is_admin(u) THEN edit(same, answered, "not_authorized", {})
        ELSE IF data[1] = "approve"
            THEN IF found = 0 THEN edit(same, answered, "not_found", {})
                 ELSE IF payment.status # PENDING THEN edit(same, answered, "already", {})
                 ELSE IF ~upd.success THEN edit(same, answered, "update_failed", {})
                 ELSE IF ~net.edit THEN edited
                 ELSE [edited EXCEPT !.out = @ \o <<Sent("channel", Absent, "approved", <<payment_id>>, net.log)>>]
        ELSE IF data[1] = "reject"
            THEN edit([same EXCEPT !.user_data[u] = begin_reject(@, payment_id, u)],
                      answered, "reject_prompt", cancel_keyboard(payment_id))
        ELSE IF data[1] = "note"
            THEN edit([same EXCEPT !.user_data[u] = begin_note(@, payment_id, u)],
                      answered, "note_prompt", cancel_keyboard(payment_id))
        ELSE IF data[1] = "cancel"
            THEN edit(same, answered, IF found # 0 THEN "cancelled_remains" ELSE "cancelled", {})
        ELSE same @@ [out |-> answered]

\* ------------------------------------------------------ handle_admin_reply
\* The clean-up at the end of handle_admin_reply: the three keys are deleted.
clean_up(ud) == no_user_data

\* handle_admin_reply for the text `text` of user u.
handle_admin_reply(u, text, net) ==
    LET same == [payments |-> payments, user_data |-> user_data, clock |-> clock]
        ud == user_data[u]
        payment_id == ud.current_payment_id
        found == find_one_id(payments, payment_id)
        payment == payments[found]
        now == clock + 1
        \* a reply to the admin as the last call before the clean-up
        reply(base, sent, msg) ==
            LET calls == sent \o <<Sent("reply", u, msg, <<payment_id>>, net.reply)>>
            IN  IF net.reply
                THEN [base EXCEPT !.user_data[u] = clean_up(@)] @@ [out |-> calls]
                ELSE base @@ [out |-> error_handler(calls, u, net)]
        rej == update_payment_status(payments, payment_id, "rejected", ud.rejecting_admin_id, text, now)
        noted == update_one(payments, payment_id,
                            [admin_note |-> text, note_added_by |-> ud.noting_admin_id,
                             note_added_at |-> now])
    IN  IF ~is_admin(u) THEN same @@ [out |-> <<>>]
        ELSE IF payment_id = None THEN same @@ [out |-> <<>>]
        ELSE IF found = 0
            THEN LET calls == <<Sent("reply", u, "not_found", <<payment_id>>, net.reply)>>
                 IN  same @@ [out |-> IF net.reply THEN calls ELSE error_handler(calls, u, net)]
        ELSE IF ud.rejecting_admin_id # Absent
            THEN IF rej.success
                 THEN reply([same EXCEPT !.payments = rej.coll, !.clock = now],
                            notify_user(payment.user_telegram_id, "rejected", <<payment_id>>, net)
                                \o <<Sent("channel", Absent, "rejected", <<payment_id>>, net.log)>>,
                            "rejected_ok")
                 ELSE reply(same, <<>>, "update_failed")
        ELSE IF ud.noting_admin_id # Absent
            THEN IF ~net.reply
                 THEN [same EXCEPT !.payments = noted.coll, !.clock = now] @@
                      [out |-> error_handler(<<Sent("reply", u, "note_added", <<payment_id>>, FALSE)>>, u, net)]
                 ELSE [same EXCEPT !.payments = noted.coll, !.clock = now,
                                   !.user_data[u] = clean_up(@)] @@
                      [out |-> <<Sent("reply", u, "note_added", <<payment_id>>, TRUE),
                                 Sent("channel", Absent, "note_added", <<payment_id>>, net.log)>>]
        ELSE [same EXCEPT !.user_data[u] = clean_up(@)] @@ [out |-> <<>>]


\* ------------------------------------------------- start, check_payments
\* start: the welcome message.
start(u, net) ==
    LET calls == <<Sent("reply", u, "welcome", <<>>, net.reply)>>
    IN  IF net.reply THEN calls ELSE error_handler(calls, u, net)

TokApproved == <<"a", "p", "p", "r", "o", "v", "e", "d">>
TokRejected == <<"r", "e", "j", "e", "c", "t", "e", "d">>
TokAll == <<"a", "l", "l">>

\* check_payments: the ids of the documents with the asked status (pending
\* without an argument), newest first, at most 50.
check_payments(u, text, net) ==
    LET arg == IF Len(text) >= 2 THEN [i \in 1..Len(text[2]) |-> Lower(text[2][i])] ELSE NoText
        status_filter ==
            IF arg = TokApproved THEN "approved"
            ELSE IF arg = TokRejected THEN "rejected"
            ELSE IF arg = TokAll THEN "all"
            ELSE PENDING
        hits == SelectSeq(payments, LAMBDA d : status_filter = "all" \/ d.status = status_filter)
        newest == [k \in 1..Len(hits) |-> hits[Len(hits) + 1 - k]._id]
        listed == SubSeq(newest, 1, Min(50, Len(newest)))
        calls == IF ~is_admin(u) THEN <<Sent("reply", u, "not_authorized", <<>>, net.reply)>>
                 ELSE IF Len(listed) = 0 THEN <<Sent("reply", u, "no_payments_found", <<>>, net.reply)>>
                 ELSE <<Sent("reply", u, "payments", listed, net.reply)>>
    IN  IF net.reply THEN calls ELSE error_handler(calls, u, net)

\* ------------------------------------------------------------ dispatcher
\* filters.COMMAND: the text starts with a bot command.
is_command(text) == Len(text) >= 1 /\ Len(text[1]) >= 1 /\ text[1][1] = "/"

\* The handlers of main() in the order they were added, all in one group:
\* the first whose filter accepts the update handles it, and no other does.
\* Which of them takes a text message of user u.
handler_for(u, text) ==
    IF is_command(text) /\ text[1] = TextStart[1] THEN "start"
    ELSE IF is_command(text) /\ text[1] = TextCheck[1] THEN "check_payments"
    ELSE IF ~is_command(text) THEN "handle_payment_details"
    ELSE IF is_admin(u) THEN "handle_admin_reply"
    ELSE "none"

\* The state after the dispatcher handled the text message.
dispatch_text(u, text, net) ==
    LET h == handler_for(u, text)
        same == [payments |-> payments, channel |-> channel, user_data |-> user_data,
                 clock |-> clock]
    IN  IF h = "start" THEN same @@ [out |-> start(u, net)]
        ELSE IF h = "check_payments" THEN same @@ [out |-> check_payments(u, text, net)]
        ELSE IF h = "handle_payment_details"
            THEN handle_payment_details(u, text, net) @@ [user_data |-> user_data]
        ELSE IF h = "handle_admin_reply"
            THEN handle_admin_reply(u, text, net) @@ [channel |-> channel]
        ELSE same @@ [out |-> <<>>]

\* ----------------------------------------------------------- the machine
\* No call of parse_time_period on its own has been made.
NoPeriod == [total_days |-> 0, label |-> ""]

Init ==
    /\ payments = <<>>
    /\ channel = <<>>
    /\ user_data = [u \in Users |-> no_user_data]
    /\ clock = 0
    /\ handled = 0
    /\ begun = [u \in Users |-> ""]
    /\ tried = 0
    /\ period = NoPeriod

\* The calls of a text handler: it answers no callback query and edits nothing.
TextNets == {n \in Nets : n.answer /\ n.edit}

\* The history after a handler run that left user_data as ud, in which
\* button_callback accepted user u's press of `button` ("" when it set no key).
Begun(ud, u, button) ==
    [w \in Users |->
        IF ud[w] = no_user_data THEN ""
        ELSE IF w = u /\ button # "" THEN button
        ELSE begun[w]]

\* A text message of user u reaches the bot.
TextMessage ==
    \E u \in Users, text \in Texts, net \in TextNets :
        LET r == dispatch_text(u, text, net)
        IN  /\ handled < MaxUpdates
            /\ handled' = handled + 1
            /\ payments' = r.payments
            /\ channel' = r.channel
            /\ user_data' = r.user_data
            /\ clock' = r.clock
            /\ begun' = Begun(r.user_data, u, "")
            /\ UNCHANGED <<tried, period>>

\* User u presses a button that channel message i shows.
ButtonPress ==
    \E u \in Users, i \in 1..Len(channel), net \in Nets :
        \E data \in channel[i].keyboard :
            LET r == button_callback(u, i, data, net)
                accepted == net.answer /\ is_admin(u) /\ data[1] \in {"reject", "note"}
            IN  /\ handled < MaxUpdates
                /\ handled' = handled + 1
                /\ payments' = r.payments
                /\ channel' = r.channel
                /\ user_data' = r.user_data
                /\ clock' = r.clock
                /\ begun' = Begun(r.user_data, u, IF accepted THEN data[1] ELSE "")
                /\ UNCHANGED <<tried, period>>

Next == TextMessage \/ ButtonPress

Spec == Init /\ [][Next]_vars

\* ------------------------------------------- parse_time_period on its own
\* The bot with no update handled, and parse_time_period about to be called
\* with a whole amount of 1..MaxAmount rupees.
DurationInit ==
    /\ payments = <<>>
    /\ channel = <<>>
    /\ user_data = [u \in Users |-> no_user_data]
    /\ clock = 0
    /\ handled = 0
    /\ begun = [u \in Users |-> ""]
    /\ tried \in {Rupees(n) : n \in 1..MaxAmount}
    /\ period = NoPeriod

\* The call parse_time_period(tried).
ParseTimePeriod ==
    /\ period = NoPeriod
    /\ period' = [total_days |-> TotalDays(tried), label |-> parse_time_period(tried)]
    /\ UNCHANGED <<payments, channel, user_data, clock, handled, begun, tried>>

DurationNext == ParseTimePeriod

DurationSpec == DurationInit /\ [][DurationNext]_vars


\* ================================================================ claims
\* Every Telegram call of the handler run succeeds.
AllOk == NetOf({})

\* The document whose id, written out as text, is payment_id: the claim a
\* button carrying payment_id is bound to (0 if there is none).
ClaimOf(payment_id) ==
    LET hits == {k \in 1..Len(payments) : Str(payments[k]._id) = payment_id}
    IN  IF hits = {} THEN 0 ELSE CHOOSE k \in hits : TRUE

\* The texts handle_payment_details accepts as a submission.
IsSubmission(text) ==
    /\ ~is_command(text)
    /\ Parsed[text].match
    /\ Parsed[text].amount_paid >= Rupees(5)
    /\ Parsed[text].amount_paid <= Rupees(150)

\* A call with this message is among the calls `calls`.
Has(calls, via, msg) == \E j \in 1..Len(calls) : calls[j].via = via /\ calls[j].msg = msg

\* ------------------------------------------------------------------- C1
\* No document ever leaves the pending status: the state C1 speaks of, a
\* claim that is Approved or Rejected, is not reachable.
C1_NothingIsEverDecided == \A k \in 1..Len(payments) : payments[k].status = PENDING

\* ------------------------------------------------------------------- C2
\* C2: when two moderators act on the same Pending claim, one pressing approve
\* while the other has pressed reject and is about to reply with the reason,
\* the first decision to arrive succeeds: the approve press of the one leaves
\* the claim Approved by him, and the reason of the other leaves it Rejected
\* by him; a decision arriving at a decided claim changes nothing.
C2_FirstDecisionWins ==
    \A m1 \in ADMIN_IDS, m2 \in ADMIN_IDS, i \in 1..Len(channel) :
        \A data \in channel[i].keyboard :
            LET k == ClaimOf(data[2])
                pressed == button_callback(m1, i, data, AllOk)
                replied == dispatch_text(m2, TextSlash, AllOk)
            IN  (/\ data[1] = "approve"
                 /\ m1 # m2
                 /\ k # 0
                 /\ user_data[m2].current_payment_id = data[2]
                 /\ begun[m2] = "reject")
                => IF payments[k].status = PENDING
                   THEN /\ pressed.payments[k].status = "approved"
                        /\ pressed.payments[k].processed_by = m1
                        /\ replied.payments[k].status = "rejected"
                        /\ replied.payments[k].processed_by = m2
                   ELSE /\ pressed.payments = payments
                        /\ replied.payments = payments

C4_DuplicateRefusedAndLogged ==
    \A u \in Users, text \in Texts, net \in TextNets :
        (IsSubmission(text) /\ find_one_txn(payments, Parsed[text].txn_id) # 0)
        => LET r == dispatch_text(u, text, net)
           IN  /\ r.payments = payments
               /\ r.channel = channel
               /\ Has(r.out, "reply", "already_submitted")
               /\ Has(r.out, "logger", "duplicate_txn") \/ Has(r.out, "channel", "duplicate_txn")

\* ------------------------------------------------------------------- C5
\* C5: once a submission has created a Pending claim and its notification is
\* in the log channel, an admin pressing the approve button of that
\* notification leaves the claim approved with processed_by set to that admin,
\* the submitter is sent the approval, and the notification carries the
\* command "/add_premium <submitter id> <duration label>".
C5_ApproveActivates ==
    \A m \in ADMIN_IDS, i \in 1..Len(channel) :
        LET data == callback_data("approve", channel[i].about)
            k == ClaimOf(data[2])
            r == button_callback(m, i, data, AllOk)
        IN  (data \in channel[i].keyboard /\ k # 0 /\ payments[k].status = PENDING)
            => /\ r.payments[k].status = "approved"
               /\ r.payments[k].processed_by = m
               /\ \E j \in 1..Len(r.out) :
                     /\ r.out[j].via = "notify"
                     /\ r.out[j].msg = "approved"
                     /\ r.out[j].to = payments[k].user_telegram_id
               /\ channel[i].command =
                     add_premium_command(payments[k].user_telegram_id, payments[k].premium_duration)

\* ------------------------------------------------------------------- C6
\* C6: a text that is no "<handle> <12 digits> <amount>", or whose amount is
\* below 5 or above 150, creates no document and changes none, whoever sends
\* it and whatever is stored; an amount above 150 is answered with the
\* maximum-amount refusal.
C6_InvalidSubmissionStoresNothing ==
    \A u \in Users, text \in {TextShortRef, TextLow, TextHigh, TextPlain}, net \in TextNets :
        LET r == dispatch_text(u, text, net)
        IN  /\ r.payments = payments
            /\ r.channel = channel
            /\ text = TextHigh => Has(r.out, "reply", "maximum_amount")

\* A state with a stored claim in which the transaction id quoted by the
\* too-high submission is still free, and the three refusals are what the
\* handler answers.
C6_Witness ==
    /\ Len(payments) >= 1
    /\ find_one_txn(payments, Parsed[TextHigh].txn_id) = 0
    /\ \E u \in Users :
          /\ Has(dispatch_text(u, TextHigh, AllOk).out, "reply", "maximum_amount")
          /\ Has(dispatch_text(u, TextLow, AllOk).out, "reply", "minimum_amount")
          /\ Has(dispatch_text(u, TextShortRef, AllOk).out, "reply", "invalid_format")

\* ------------------------------------------------------------------- C7
\* C7: a user outside ADMIN_IDS changes no document and gets no key in
\* user_data, by any button press and by any text, also while an admin has
\* keys set; a text of his may only add a document of his own.
C7_OnlyAdminsModerate ==
    \A u \in Users \ ADMIN_IDS :
        /\ \A i \in 1..Len(channel), net \in Nets :
              \A data \in channel[i].keyboard :
                  LET r == button_callback(u, i, data, net)
                  IN  r.payments = payments /\ r.user_data = user_data
        /\ \A text \in Texts, net \in TextNets :
              LET r == dispatch_text(u, text, net)
              IN  /\ SubSeq(r.payments, 1, Len(payments)) = payments
                  /\ r.user_data = user_data

\* A state in which a notification still shows its three buttons, an admin has
\* keys set, and a press by a user outside ADMIN_IDS is answered with the
\* refusal.
C7_Witness ==
    \E u \in Users \ ADMIN_IDS, m \in ADMIN_IDS, i \in 1..Len(channel) :
        /\ channel[i].keyboard = create_payment_buttons(channel[i].about)
        /\ user_data[m] # no_user_data
        /\ \A data \in channel[i].keyboard :
              Has(button_callback(u, i, data, AllOk).out, "edit", "not_authorized")

\* ------------------------------------------------------------------- C8
\* C8: a text that is no command, sent by an admin whose user_data holds a
\* current_payment_id, is handled by handle_admin_reply and creates no
\* document.
C8_SessionTextGoesToSession ==
    \A m \in ADMIN_IDS, text \in Texts :
        (user_data[m].current_payment_id # None /\ ~is_command(text))
        => /\ handler_for(m, text) = "handle_admin_reply"
           /\ Len(dispatch_text(m, text, AllOk).payments) = Len(payments)

\* ------------------------------------------------------------------- C9
\* C9: when an admin who pressed reject or note presses the cancel button of
\* that prompt, his user_data holds no key afterwards.
C9_CancelClearsSession ==
    \A m \in ADMIN_IDS, i \in 1..Len(channel), net \in Nets :
        \A data \in channel[i].keyboard :
            (data[1] = "cancel" /\ net.answer /\ user_data[m].current_payment_id = data[2])
            => button_callback(m, i, data, net).user_data[m] = no_user_data

\* ------------------------------------------------------------------ C10
\* C10: when the press that last set an admin's keys was the note button of
\* claim B, after an earlier reject press, his next reply is stored as the
\* note of B with him as its author, and no claim changes its status.
C10_NewSessionReplacesOld ==
    \A m \in ADMIN_IDS :
        LET b == ClaimOf(user_data[m].current_payment_id)
            r == dispatch_text(m, TextSlash, AllOk)
        IN  (begun[m] = "note" /\ user_data[m].rejecting_admin_id # Absent /\ b # 0)
            => /\ r.payments[b].admin_note = TextSlash
               /\ r.payments[b].note_added_by = m
               /\ \A k \in 1..Len(payments) : r.payments[k].status = payments[k].status

\* ------------------------------------------------------------------ C11
\* No handler run sends a submitter the approved or the rejected notification:
\* the state C11 speaks of, a decision notification being sent, is not
\* reachable.
C11_NoDecisionNotificationIsEverSent ==
    /\ \A u \in Users, i \in 1..Len(channel), net \in Nets :
          \A data \in channel[i].keyboard :
              ~Has(button_callback(u, i, data, net).out, "notify", "approved")
    /\ \A u \in Users, text \in Texts, net \in TextNets :
          ~Has(dispatch_text(u, text, net).out, "notify", "rejected")

\* ------------------------------------------------------------------ C12
\* The four fields of a document that no operation may change.
Submitted(doc) ==
    [premium_duration |-> doc.premium_duration, amount_paid |-> doc.amount_paid,
     txn_id |-> doc.txn_id, user_telegram_id |-> doc.user_telegram_id]

\* C12: every document's premium_duration is parse_time_period of its
\* amount_paid, and no button press (approve, reject, note, cancel), no text
\* (a reason, a note, a duplicate submission, /check_payments) and neither of
\* the two updates, applied to the document itself, changes its
\* premium_duration, amount_paid, txn_id or user_telegram_id.
C12_SubmittedFieldsAreKept ==
    \A k \in 1..Len(payments) :
        /\ payments[k].premium_duration = parse_time_period(payments[k].amount_paid)
        /\ \A u \in Users, i \in 1..Len(channel), net \in Nets :
              \A data \in channel[i].keyboard :
                  Submitted(button_callback(u, i, data, net).payments[k]) = Submitted(payments[k])
        /\ \A u \in Users, text \in Texts, net \in TextNets :
              Submitted(dispatch_text(u, text, net).payments[k]) = Submitted(payments[k])
        /\ \A m \in ADMIN_IDS, status \in {"approved", "rejected"}, note \in {NoText, TextSlash} :
              Submitted(update_payment_status(payments, payments[k]._id, status, m, note,
                                              clock + 1).coll[k]) = Submitted(payments[k])
        /\ \A m \in ADMIN_IDS :
              Submitted(update_one(payments, payments[k]._id,
                                   [admin_note |-> TextSlash, note_added_by |-> m,
                                    note_added_at |-> clock + 1]).coll[k]) = Submitted(payments[k])

\* A state with a document of an interpolated duration, in which an admin
\* holds the keys of that document, a duplicate of it is refused, and
\* update_payment_status applied to it does change it.
C12_Witness ==
    \E k \in 1..Len(payments), m \in ADMIN_IDS, u \in Users :
        /\ payments[k].premium_duration = "18days"
        /\ user_data[m].current_payment_id = Str(payments[k]._id)
        /\ Has(dispatch_text(u, TextOk(2), AllOk).out, "reply", "already_submitted")
        /\ update_payment_status(payments, payments[k]._id, "approved", m, NoText, clock + 1).success

\* ------------------------------------------------------------------ C13
\* C13: when an admin has pressed the note button of an existing claim and
\* then replies, the claim's admin_note is the reply text and note_added_by
\* the admin, and its status, processed_by and admin_processed_date are as
\* before.
C13_NoteIsStored ==
    \A m \in ADMIN_IDS :
        LET b == ClaimOf(user_data[m].current_payment_id)
            r == dispatch_text(m, TextSlash2, AllOk)
        IN  (begun[m] = "note" /\ user_data[m].rejecting_admin_id = Absent /\ b # 0)
            => /\ r.payments[b].admin_note = TextSlash2
               /\ r.payments[b].note_added_by = m
               /\ r.payments[b].status = payments[b].status
               /\ r.payments[b].processed_by = payments[b].processed_by
               /\ r.payments[b].admin_processed_date = payments[b].admin_processed_date

\* ------------------------------------------------------------------ C14
\* The days one unit of a label stands for.
UnitDays == [year |-> 365, month |-> 30, days |-> 1]

\* The day count a label converts back to: "<n>year" is 365n days, "<n>month"
\* 30n days, "<n>days" n days; 0 for a text of no such form.
LabelDays(label) ==
    LET reads == {r \in (1..MaxDays) \X DOMAIN UnitDays : ToString(r[1]) \o r[2] = label}
    IN  IF reads = {} THEN 0
        ELSE LET r == CHOOSE r \in reads : TRUE IN r[1] * UnitDays[r[2]]

\* C14: when parse_time_period has been called with a whole amount a of 5 to
\* 150, its day count is at most the day count of every whole amount b of a to
\* 150, and the label it returned converts back to a positive day count equal
\* to the computed total_days.
C14_DurationMonotoneAndReadable ==
    (period # NoPeriod /\ tried >= Rupees(5) /\ tried <= Rupees(150))
    => /\ \A b \in 5..150 : tried <= Rupees(b) => period.total_days <= TotalDays(Rupees(b))
       /\ LabelDays(period.label) = period.total_days
       /\ period.total_days > 0

\* The call with amount 108 has returned: 210 days, labelled in months, more
\* than amount 107 gives.
C14_Witness ==
    /\ tried = Rupees(108)
    /\ period.label = "7month"
    /\ LabelDays(period.label) = 210
    /\ TotalDays(Rupees(107)) < period.total_days

\* ------------------------------------------------------------------ C15
\* C15: parse_time_period returns "3days" for 5, "7days" for 10, "1month" for
\* 25 and "1year" for 150, for every tier amount a label of exactly the
\* tier's days, and for the out-of-range amounts 200 and 1 the labels of the
\* nearest bound, "1year" and "3days".
C15_TierAmountsAndClamp ==
    period # NoPeriod
    => /\ tried = Rupees(5) => period.label = "3days"
       /\ tried = Rupees(10) => period.label = "7days"
       /\ tried = Rupees(25) => period.label = "1month"
       /\ tried = Rupees(150) => period.label = "1year"
       /\ \A i \in 1..Len(tiers) :
             tried = Rupees(tiers[i].amount) => LabelDays(period.label) = tiers[i].days
       /\ tried = Rupees(200) => period.label = "1year"
       /\ tried = Rupees(1) => period.label = "3days"

\* The call with the out-of-range amount 200 has returned the label of the top tier.
C15_Witness ==
    /\ tried = Rupees(200)
    /\ period.label = "1year"
    /\ LabelDays(period.label) = tiers[Len(tiers)].days

\* ------------------------------------------------------------------ C16
\* C16: for a whole amount strictly between two adjacent tier amounts,
\* parse_time_period returns round(lower.days + (amount - lower.amount) /
\* (upper.amount - lower.amount) * (upper.days - lower.days)) days, a count
\* strictly between the two tiers' days; amount 17 gives 18 days.
C16_InterpolationBetweenTiers ==
    period # NoPeriod
    => /\ \A i \in 1..(Len(tiers) - 1) :
             LET lower == tiers[i]
                 upper == tiers[i + 1]
                 n == tried \div 10
                 span == upper.amount - lower.amount
                 days == Round(lower.days * span + (n - lower.amount) * (upper.days - lower.days),
                               span)
             IN  (lower.amount < n /\ n < upper.amount)
                 => /\ LabelDays(period.label) = days
                    /\ lower.days < LabelDays(period.label)
                    /\ LabelDays(period.label) < upper.days
       /\ tried = Rupees(17) => period.label = "18days"

\* The call with amount 17 has returned 18 days, between the 7 and the 30 of
\* its two tiers.
C16_Witness ==
    /\ tried = Rupees(17)
    /\ period.label = "18days"
    /\ tiers[2].days < LabelDays(period.label)
    /\ LabelDays(period.label) < tiers[3].days

\* ------------------------------------------------------------------ C17
\* C17: a submission that creates a claim leaves in the log channel a
\* notification about that claim with the approve, reject and note buttons
\* bound to its id, also when the receipt to the submitter cannot be
\* delivered (the log channel itself being reachable).
C17_EveryClaimIsAnnounced ==
    \A u \in Users, text \in Texts, net \in TextNets :
        LET r == dispatch_text(u, text, net)
            k == Len(payments) + 1
        IN  (net.log /\ Len(r.payments) = k)
            => \E i \in 1..Len(r.channel) :
                  /\ r.channel[i].about = r.payments[k]._id
                  /\ r.channel[i].keyboard = create_payment_buttons(r.payments[k]._id)

\* ------------------------------------------------------------------ C18
\* C18: after handle_admin_reply has handled a reply of an admin who holds a
\* current_payment_id, that admin's user_data holds none of the three keys,
\* whatever the outcome of the reply.
C18_ReplyConsumesSession ==
    \A m \in ADMIN_IDS, text \in {TextSlash, TextSlash2} :
        user_data[m].current_payment_id # None
        => dispatch_text(m, text, AllOk).user_data[m] = no_user_data

\* ------------------------------------------------------------------ C20
\* C20: in every reachable state, a claim whose command "/add_premium
\* <user id> <duration label>" is in a log-channel message has the status
\* approved.
C20_CommandOnlyAfterApproval ==
    \A i \in 1..Len(channel), k \in 1..Len(payments) :
        (/\ channel[i].about = payments[k]._id
         /\ channel[i].command = add_premium_command(payments[k].user_telegram_id,
                                                     payments[k].premium_duration))
        => payments[k].status = "approved"

\* ------------------------------------------------------------------ C21
\* C21: the notification of a pending claim keeps its approve and reject
\* buttons: a press by a user outside ADMIN_IDS on a notification showing
\* them leaves them on it, and when an admin who pressed reject or note
\* presses the cancel button of the prompt, the notification shows them again.
C21_PendingStaysDecidable ==
    \A u \in Users, i \in 1..Len(channel), k \in 1..Len(payments) :
        \A data \in channel[i].keyboard :
            LET shown == button_callback(u, i, data, AllOk).channel[i].keyboard
                decide == {callback_data("approve", payments[k]._id),
                           callback_data("reject", payments[k]._id)}
            IN  (channel[i].about = payments[k]._id /\ payments[k].status = PENDING)
                => /\ (u \notin ADMIN_IDS /\ decide \subseteq channel[i].keyboard)
                      => decide \subseteq shown
                   /\ (u \in ADMIN_IDS /\ data[1] = "cancel" /\ begun[u] # "")
                      => decide \subseteq shown

\* ------------------------------------------------------------------ C22
\* No document ever holds a note or a note author: the state C22 speaks of, a
\* claim with a note written by a moderator, is not reachable.
C22_NoNoteIsEverStored ==
    \A k \in 1..Len(payments) :
        /\ payments[k].admin_note = NoText
        /\ payments[k].note_added_by = Absent

====
